---- MODULE Spec2Model ----
(***************************************************************************)
(* The custom-resource lifecycle handler of functions/custom-resource:     *)
(* on_event dispatches a lifecycle event to on_create, on_update or        *)
(* on_delete; is_complete is the polling hook.                             *)
(*                                                                         *)
(* A Python dict is a function whose DOMAIN is its key set.  A str that the *)
(* code only passes around (RequestType, PhysicalResourceId) is a string;  *)
(* a str that the code parses (Url) is a sequence of one-character         *)
(* strings.  A call yields a record  [out, log, trace]:  its outcome (the   *)
(* value returned or the exception raised), the lines it printed, in order, *)
(* and the handlers it entered, in order.                                  *)
(***************************************************************************)
EXTENDS Integers, Sequences, FiniteSets, TLC

VARIABLES entry, event, outcome, log, called, prior, phase, pending, polls

vars == <<entry, event, outcome, log, called, prior, phase, pending, polls>>

(***************************************************************************)
(* Bounds of the inputs.                                                   *)
(***************************************************************************)
MaxSchemeLen == 2
MaxHostLen == 2
MaxPortLen == 1
MaxPathLen == 1
MaxRawLen == 3
MaxPolls == 2

(***************************************************************************)
(* Dicts, outcomes and printed lines.                                      *)
(***************************************************************************)
EmptyDict == <<>>

Has(d, k) == k \in DOMAIN d

NoError == [type |-> "", args |-> <<>>]

NoOutcome == [kind |-> "none", value |-> EmptyDict, error |-> NoError]

Return(v) == [kind |-> "return", value |-> v, error |-> NoError]

Raise(t, a) == [kind |-> "raise", value |-> EmptyDict, error |-> [type |-> t, args |-> a]]

KeyError(k) == Raise("KeyError", <<k>>)

Line(f, a) == [fmt |-> f, args |-> a]

(***************************************************************************)
(* urllib.parse.urlparse(url).netloc, as CPython 3.11 computes it for a    *)
(* str over ASCII without ']'.                                             *)
(***************************************************************************)
Letters ==
  {"a", "b", "c", "d", "e", "f", "g", "h", "i", "j", "k", "l", "m",
   "n", "o", "p", "q", "r", "s", "t", "u", "v", "w", "x", "y", "z",
   "A", "B", "C", "D", "E", "F", "G", "H", "I", "J", "K", "L", "M",
   "N", "O", "P", "Q", "R", "S", "T", "U", "V", "W", "X", "Y", "Z"}

Digits == {"0", "1", "2", "3", "4", "5", "6", "7", "8", "9"}

scheme_chars == Letters \cup Digits \cup {"+", "-", "."}

WhitespaceOrC0 == {" ", "\t"}

UnsafeBytes == {"\t"}

RECURSIVE LStrip(_)
LStrip(s) ==
  IF s # <<>> /\ Head(s) \in WhitespaceOrC0 THEN LStrip(Tail(s)) ELSE s

RemoveUnsafe(s) == SelectSeq(s, LAMBDA c : c \notin UnsafeBytes)

\* str.find(c, start), 1-based: the least index >= start holding c, 0 when none
Find(s, c, start) ==
  LET hits == {i \in start..Len(s) : s[i] = c}
  IN  IF hits = {} THEN 0 ELSE CHOOSE i \in hits : \A j \in hits : i <= j

Contains(s, c) == \E i \in 1..Len(s) : s[i] = c

\* the earliest of '/', '?', '#' at or after start, else one past the end
NetlocEnd(url, start) ==
  LET found == {Find(url, c, start) : c \in {"/", "?", "#"}} \ {0}
  IN  IF found = {} THEN Len(url) + 1
      ELSE CHOOSE i \in found : \A j \in found : i <= j

_splitnetloc(url, start) == SubSeq(url, start, NetlocEnd(url, start) - 1)

\* the url with its scheme and the ':' after it removed, when it has a scheme
AfterScheme(url) ==
  LET i == Find(url, ":", 1)
  IN  IF /\ i > 1
         /\ url[1] \in Letters
         /\ \A k \in 1..(i - 1) : url[k] \in scheme_chars
      THEN SubSeq(url, i + 1, Len(url))
      ELSE url

\* urlsplit yielding the hostname, without the port, and never raising
urlsplitNoPort(u) ==
  LET url == AfterScheme(RemoveUnsafe(LStrip(u)))
      netloc == IF Len(url) >= 2 /\ SubSeq(url, 1, 2) = <<"/", "/">>
                THEN _splitnetloc(url, 3)
                ELSE <<>>
      colon == Find(netloc, ":", 1)
  IN  [ok |-> TRUE,
       netloc |-> IF colon = 0 THEN netloc ELSE SubSeq(netloc, 1, colon - 1)]

\* ok is FALSE when urlsplit raises ValueError("Invalid IPv6 URL"): a '[' in
\* the netloc without a ']'.  _checknetloc only acts on non-ASCII netlocs.
urlsplit(u) ==
  LET url == AfterScheme(RemoveUnsafe(LStrip(u)))
      netloc == IF Len(url) >= 2 /\ SubSeq(url, 1, 2) = <<"/", "/">>
                THEN _splitnetloc(url, 3)
                ELSE <<>>
  IN  IF Contains(netloc, "[")
      THEN [ok |-> FALSE, netloc |-> <<>>]
      ELSE [ok |-> TRUE, netloc |-> netloc]

urlparse(u) == urlsplit(u)

(***************************************************************************)
(* The handlers.                                                           *)
(***************************************************************************)
Ran(o, l, t) == [out |-> o, log |-> l, trace |-> t]

\* on_create that also sets a PhysicalResourceId of its own
on_createWithId(ev) ==
  IF ~Has(ev, "ResourceProperties")
  THEN Ran(KeyError("ResourceProperties"), <<>>, <<"on_create">>)
  ELSE LET props == ev["ResourceProperties"]
           line == Line("create new resource with props %s", <<props>>)
       IN  IF ~Has(props, "Url")
           THEN Ran(KeyError("Url"), <<line>>, <<"on_create">>)
           ELSE LET parsed_url == urlparse(props["Url"])
                IN  IF ~parsed_url.ok
                    THEN Ran(Raise("ValueError", <<"Invalid IPv6 URL">>),
                             <<line>>, <<"on_create">>)
                    ELSE Ran(Return(("Data" :> ("HostName" :> parsed_url.netloc))
                                    @@ ("PhysicalResourceId" :> "new")),
                             <<line>>, <<"on_create">>)

on_create(ev) ==
  IF ~Has(ev, "ResourceProperties")
  THEN Ran(KeyError("ResourceProperties"), <<>>, <<"on_create">>)
  ELSE LET props == ev["ResourceProperties"]
           line == Line("create new resource with props %s", <<props>>)
       IN  IF ~Has(props, "Url")
           THEN Ran(KeyError("Url"), <<line>>, <<"on_create">>)
           ELSE LET parsed_url == urlparse(props["Url"])
                    attributes == ("HostName" :> parsed_url.netloc)
                IN  IF ~parsed_url.ok
                    THEN Ran(Raise("ValueError", <<"Invalid IPv6 URL">>),
                             <<line>>, <<"on_create">>)
                    ELSE Ran(Return(("Data" :> attributes)),
                             <<line>>, <<"on_create">>)

\* on_update answering with a fixed identifier
on_updateFixedId(ev) ==
  IF ~Has(ev, "PhysicalResourceId")
  THEN Ran(KeyError("PhysicalResourceId"), <<>>, <<"on_update">>)
  ELSE IF ~Has(ev, "ResourceProperties")
  THEN Ran(KeyError("ResourceProperties"), <<>>, <<"on_update">>)
  ELSE Ran(Return(("PhysicalResourceId" :> "abc-123")),
           <<Line("update resource %s with props %s",
                  <<ev["PhysicalResourceId"], ev["ResourceProperties"]>>)>>,
           <<"on_update">>)

on_update(ev) ==
  IF ~Has(ev, "PhysicalResourceId")
  THEN Ran(KeyError("PhysicalResourceId"), <<>>, <<"on_update">>)
  ELSE IF ~Has(ev, "ResourceProperties")
  THEN Ran(KeyError("ResourceProperties"), <<>>, <<"on_update">>)
  ELSE LET physical_id == ev["PhysicalResourceId"]
           props == ev["ResourceProperties"]
       IN  Ran(Return(("PhysicalResourceId" :> physical_id)),
               <<Line("update resource %s with props %s", <<physical_id, props>>)>>,
               <<"on_update">>)

\* on_delete reading ResourceProperties as on_update does
on_deleteReadsProps(ev) ==
  IF ~Has(ev, "PhysicalResourceId")
  THEN Ran(KeyError("PhysicalResourceId"), <<>>, <<"on_delete">>)
  ELSE IF ~Has(ev, "ResourceProperties")
  THEN Ran(KeyError("ResourceProperties"), <<>>, <<"on_delete">>)
  ELSE Ran(Return(("PhysicalResourceId" :> ev["PhysicalResourceId"])),
           <<Line("delete resource %s", <<ev["PhysicalResourceId"]>>)>>,
           <<"on_delete">>)

on_delete(ev) ==
  IF ~Has(ev, "PhysicalResourceId")
  THEN Ran(KeyError("PhysicalResourceId"), <<>>, <<"on_delete">>)
  ELSE LET physical_id == ev["PhysicalResourceId"]
       IN  Ran(Return(("PhysicalResourceId" :> physical_id)),
               <<Line("delete resource %s", <<physical_id>>)>>,
               <<"on_delete">>)

\* what on_event yields once the handler it called has finished
After(first, h) == Ran(h.out, <<first>> \o h.log, h.trace)

InvalidRequestType(request_type) ==
  Raise("Exception", <<"Invalid request type: %s", request_type>>)

\* on_event matching the request type without regard to case
on_eventAnyCase(ev) ==
  LET raw == Line("%s", <<ev>>)
  IN  IF ~Has(ev, "RequestType")
      THEN Ran(KeyError("RequestType"), <<raw>>, <<>>)
      ELSE LET request_type == ev["RequestType"]
           IN  IF request_type \in {"Create", "create"} THEN After(raw, on_create(ev))
               ELSE IF request_type = "Update" THEN After(raw, on_update(ev))
               ELSE IF request_type = "Delete" THEN After(raw, on_delete(ev))
               ELSE Ran(InvalidRequestType(request_type), <<raw>>, <<>>)

\* on_event printing the event only after it has read RequestType
on_eventLogsAfterRead(ev) ==
  LET raw == Line("%s", <<ev>>)
  IN  IF ~Has(ev, "RequestType")
      THEN Ran(KeyError("RequestType"), <<>>, <<>>)
      ELSE LET request_type == ev["RequestType"]
           IN  IF request_type = "Create" THEN After(raw, on_create(ev))
               ELSE IF request_type = "Update" THEN After(raw, on_update(ev))
               ELSE IF request_type = "Delete" THEN After(raw, on_delete(ev))
               ELSE Ran(InvalidRequestType(request_type), <<raw>>, <<>>)

\* on_event whose Update branch lacks its return and falls into the Delete branch
on_eventFallsThrough(ev) ==
  LET raw == Line("%s", <<ev>>)
  IN  IF ~Has(ev, "RequestType")
      THEN Ran(KeyError("RequestType"), <<raw>>, <<>>)
      ELSE LET request_type == ev["RequestType"]
           IN  IF request_type = "Create" THEN After(raw, on_create(ev))
               ELSE IF request_type = "Update"
               THEN LET u == on_update(ev)
                        d == on_delete(ev)
                    IN  IF u.out.kind = "raise" THEN After(raw, u)
                        ELSE Ran(d.out, <<raw>> \o u.log \o d.log, u.trace \o d.trace)
               ELSE IF request_type = "Delete" THEN After(raw, on_delete(ev))
               ELSE Ran(InvalidRequestType(request_type), <<raw>>, <<>>)

on_event(ev) ==
  LET raw == Line("%s", <<ev>>)
  IN  IF ~Has(ev, "RequestType")
      THEN Ran(KeyError("RequestType"), <<raw>>, <<>>)
      ELSE LET request_type == ev["RequestType"]
           IN  IF request_type = "Create" THEN After(raw, on_create(ev))
               ELSE IF request_type = "Update" THEN After(raw, on_update(ev))
               ELSE IF request_type = "Delete" THEN After(raw, on_delete(ev))
               ELSE Ran(InvalidRequestType(request_type), <<raw>>, <<>>)

\* is_complete reporting a Delete as still in progress
is_completeNotReady(ev) ==
  IF ~Has(ev, "PhysicalResourceId")
  THEN Ran(KeyError("PhysicalResourceId"), <<>>, <<>>)
  ELSE IF ~Has(ev, "RequestType")
  THEN Ran(KeyError("RequestType"), <<>>, <<>>)
  ELSE Ran(Return(("IsComplete" :> (ev["RequestType"] # "Delete"))), <<>>, <<>>)

\* is_complete reporting completion from the second poll on
is_completeSecondPoll(ev) ==
  IF ~Has(ev, "PhysicalResourceId")
  THEN Ran(KeyError("PhysicalResourceId"), <<>>, <<>>)
  ELSE IF ~Has(ev, "RequestType")
  THEN Ran(KeyError("RequestType"), <<>>, <<>>)
  ELSE Ran(Return(("IsComplete" :> (polls >= 1))), <<>>, <<>>)

is_complete(ev) ==
  IF ~Has(ev, "PhysicalResourceId")
  THEN Ran(KeyError("PhysicalResourceId"), <<>>, <<>>)
  ELSE IF ~Has(ev, "RequestType")
  THEN Ran(KeyError("RequestType"), <<>>, <<>>)
  ELSE Ran(Return(("IsComplete" :> TRUE)), <<>>, <<>>)

(***************************************************************************)
(* The inputs: lifecycle events, and the URLs a Create event carries.      *)
(***************************************************************************)
Seqs(A, n) == UNION {[1..k -> A] : k \in 0..n}

SchemeSep == <<":", "/", "/">>

Schemes ==
  {<<"a">> \o t : t \in Seqs({"b", "1", "+"}, MaxSchemeLen - 1)}
    \cup {<<"h", "t", "t", "p", "s">>, <<"h", "t", "t", "p">>}

Hosts ==
  (Seqs({"a", "1", "."}, MaxHostLen) \ {<<>>})
    \cup {<<"e", "x", "a", "m", "p", "l", "e", ".", "c", "o", "m">>, <<"1", "0", ".", "0", ".", "0", ".", "5">>}

Ports ==
  {<<>>} \cup {<<":">> \o d : d \in Seqs({"8"}, MaxPortLen) \ {<<>>}}
    \cup {<<":">> \o <<"8", "0", "8", "0">>}

Paths ==
  {<<>>} \cup {<<"/">> \o p : p \in Seqs({"a", "/", ":"}, MaxPathLen)}
    \cup {<<"/", "p", "a", "t", "h">>}

Compose(s, h, p, q) == s \o SchemeSep \o h \o p \o q

WellFormedUrls == {Compose(s, h, p, q) : s \in Schemes, h \in Hosts, p \in Ports, q \in Paths}

RawUrls == Seqs({"a", ":", "/", "?", "#", "[", " ", "\t"}, MaxRawLen)

UrlInputs == WellFormedUrls \cup RawUrls

ExampleUrl == Compose(<<"h", "t", "t", "p", "s">>, <<"e", "x", "a", "m", "p", "l", "e", ".", "c", "o", "m">>, <<":">> \o <<"8", "0", "8", "0">>, <<"/", "p", "a", "t", "h">>)

IpUrl == Compose(<<"h", "t", "t", "p">>, <<"1", "0", ".", "0", ".", "0", ".", "5">>, <<>>, <<"/">>)

BracketUrl == <<"h", "t", "t", "p">> \o SchemeSep \o <<"[", "a">>

Urls == {ExampleUrl, IpUrl, BracketUrl}

RequestTypes == {"Create", "Update", "Delete", "create", ""}

PhysicalIds == {"abc-123", "id-2"}

Field(k, vals) == {EmptyDict} \cup {(k :> v) : v \in vals}

Properties == Field("Url", Urls)

EventsOver(types, ids, props) ==
  {t @@ i @@ p : t \in Field("RequestType", types),
                 i \in Field("PhysicalResourceId", ids),
                 p \in Field("ResourceProperties", props)}

Events == EventsOver(RequestTypes, PhysicalIds, Properties)

PairEvents ==
  EventsOver({"Create", "Update", "Delete", "create"}, {"abc-123"},
             {("Url" :> ExampleUrl), ("Url" :> BracketUrl)})

CreateEvent(u) == ("RequestType" :> "Create") @@ ("ResourceProperties" :> ("Url" :> u))

(***************************************************************************)
(* The state: what the last call in each execution environment was given   *)
(* and what it did, and where the orchestrator is with the operation it    *)
(* submitted.  The module keeps no variable of its own between calls.      *)
(***************************************************************************)
Envs == {1, 2}

Init ==
  /\ entry = [r \in Envs |-> "none"]
  /\ event = [r \in Envs |-> EmptyDict]
  /\ outcome = [r \in Envs |-> NoOutcome]
  /\ log = [r \in Envs |-> <<>>]
  /\ called = [r \in Envs |-> <<>>]
  /\ prior = [r \in Envs |-> "none"]
  /\ phase = "idle"
  /\ pending = EmptyDict
  /\ polls = 0

\* environment r has run the entry point named e on ev, with the effects ran
Served(r, e, ev, ran) ==
  /\ entry' = [entry EXCEPT ![r] = e]
  /\ event' = [event EXCEPT ![r] = ev]
  /\ outcome' = [outcome EXCEPT ![r] = ran.out]
  /\ log' = [log EXCEPT ![r] = ran.log]
  /\ called' = [called EXCEPT ![r] = ran.trace]
  /\ prior' = [prior EXCEPT ![r] = outcome[r].kind]

\* on_event keeping the last value it returned in a module-level variable and
\* answering from it when the next event has the same RequestType
OnEventCached(r, ev) ==
  /\ Served(r, "on_event", ev,
            IF /\ entry[r] = "on_event"
               /\ outcome[r].kind = "return"
               /\ Has(ev, "RequestType")
               /\ ev["RequestType"] = event[r]["RequestType"]
            THEN Ran(outcome[r], log[r], called[r])
            ELSE on_event(ev))
  /\ UNCHANGED <<phase, pending, polls>>

OnEvent(r, ev) ==
  /\ Served(r, "on_event", ev, on_event(ev))
  /\ UNCHANGED <<phase, pending, polls>>

IsComplete(r, ev) ==
  /\ Served(r, "is_complete", ev, is_complete(ev))
  /\ UNCHANGED <<phase, pending, polls>>

\* calls arrive in any order, with any event, at one environment
Next ==
  \E ev \in Events :
    \/ OnEvent(1, ev)
    \/ IsComplete(1, ev)

Spec == Init /\ [][Next]_vars

\* the same, at two environments that share nothing
PairNext ==
  \E r \in Envs, ev \in PairEvents :
    \/ OnEvent(r, ev)
    \/ IsComplete(r, ev)

PairSpec == Init /\ [][PairNext]_vars

\* the first call of a fresh environment is a Create for some url
FirstCreate ==
  /\ entry[1] = "none"
  /\ \E u \in UrlInputs : OnEvent(1, CreateEvent(u))

UrlNext == FirstCreate

UrlSpec == Init /\ [][UrlNext]_vars

(***************************************************************************)
(* The orchestrator's protocol: it submits an event to on_event; when that *)
(* returns it polls is_complete, with the event completed by the resource's *)
(* PhysicalResourceId, until is_complete reports IsComplete = true.        *)
(***************************************************************************)
AssignedId == "assigned-1"

\* the event is_complete is polled with, after on_event returned value for ev
PollEvent(ev, value) ==
  LET id == IF Has(value, "PhysicalResourceId") THEN value["PhysicalResourceId"]
            ELSE IF Has(ev, "PhysicalResourceId") THEN ev["PhysicalResourceId"]
            ELSE AssignedId
  IN  ("PhysicalResourceId" :> id) @@ ev

Submit(r, ev) ==
  /\ phase = "idle"
  /\ Served(r, "on_event", ev, on_event(ev))
  /\ LET out == on_event(ev).out
     IN  IF out.kind = "return"
         THEN phase' = "polling" /\ pending' = PollEvent(ev, out.value)
         ELSE phase' = "rejected" /\ pending' = EmptyDict
  /\ polls' = 0

Poll(r) ==
  /\ phase = "polling"
  /\ polls < MaxPolls
  /\ Served(r, "is_complete", pending, is_complete(pending))
  /\ LET out == is_complete(pending).out
     IN  phase' = IF out.kind = "raise" THEN "poll_failed"
                  ELSE IF out.value["IsComplete"] THEN "complete"
                  ELSE "polling"
  /\ polls' = polls + 1
  /\ UNCHANGED pending

\* the orchestrator is done with the operation and takes the next one
Settle ==
  /\ phase \in {"rejected", "complete", "poll_failed"}
  /\ phase' = "idle"
  /\ pending' = EmptyDict
  /\ polls' = 0
  /\ UNCHANGED <<entry, event, outcome, log, called, prior>>

\* the orchestrator keeps polling an operation on_event accepted, so a poll
\* that stays possible is eventually made
ProtocolNext ==
  \/ \E ev \in Events : Submit(1, ev)
  \/ Poll(1)
  \/ Settle

ProtocolSpec == Init /\ [][ProtocolNext]_vars /\ WF_vars(Poll(1))

(***************************************************************************)
(* The claims.                                                             *)
(***************************************************************************)
Recognized == {"Create", "Update", "Delete"}

OnEventServed(r) == entry[r] = "on_event"

TypeOf(r) == event[r]["RequestType"]

Returned(r) == outcome[r].kind = "return"

Raised(r, t) == outcome[r].kind = "raise" /\ outcome[r].error.type = t

\* C1: an on_event call whose RequestType is present and is not exactly
\* 'Create', 'Update' or 'Delete' raises the unrecognized-request-type error,
\* returns no result and enters no handler.
C1_UnrecognizedTypeFails ==
  \A r \in Envs :
    (OnEventServed(r) /\ Has(event[r], "RequestType") /\ TypeOf(r) \notin Recognized)
      => /\ outcome[r] = InvalidRequestType(TypeOf(r))
         /\ ~Returned(r)
         /\ called[r] = <<>>

C1_Witness ==
  /\ OnEventServed(1)
  /\ Has(event[1], "RequestType")
  /\ TypeOf(1) = "create"
  /\ Has(event[1], "ResourceProperties")
  /\ Raised(1, "Exception")

\* C2: an Update or Delete event carrying PhysicalResourceId p (an Update also
\* carrying ResourceProperties) is answered with PhysicalResourceId = p.
C2_PhysicalIdEchoed ==
  \A r \in Envs :
    ( /\ OnEventServed(r)
      /\ Has(event[r], "RequestType")
      /\ TypeOf(r) \in {"Update", "Delete"}
      /\ Has(event[r], "PhysicalResourceId")
      /\ (TypeOf(r) = "Update" => Has(event[r], "ResourceProperties")) )
      => /\ Returned(r)
         /\ Has(outcome[r].value, "PhysicalResourceId")
         /\ outcome[r].value["PhysicalResourceId"] = event[r]["PhysicalResourceId"]

C2_Witness ==
  /\ OnEventServed(1)
  /\ Has(event[1], "RequestType")
  /\ TypeOf(1) = "Update"
  /\ event[1] = ("RequestType" :> "Update") @@ ("PhysicalResourceId" :> "id-2")
                  @@ ("ResourceProperties" :> ("Url" :> IpUrl))
  /\ outcome[1] = Return(("PhysicalResourceId" :> "id-2"))

StartsWith(u, p) == Len(u) >= Len(p) /\ SubSeq(u, 1, Len(p)) = p

\* C3: a Create event whose Url is scheme://host[:port][/path] is answered
\* with Data.HostName = host, followed by :port exactly when a port is present.
C3_HostNameIsNetloc ==
  \A r \in Envs :
    ( /\ OnEventServed(r)
      /\ Has(event[r], "RequestType")
      /\ TypeOf(r) = "Create"
      /\ Has(event[r], "ResourceProperties")
      /\ Has(event[r]["ResourceProperties"], "Url") )
      => LET url == event[r]["ResourceProperties"]["Url"]
         IN  \A s \in Schemes :
               StartsWith(url, s \o SchemeSep) =>
                 \A h \in Hosts :
                   StartsWith(url, s \o SchemeSep \o h) =>
                     \A p \in Ports, q \in Paths :
                       url = Compose(s, h, p, q) =>
                         outcome[r] = Return(("Data" :> ("HostName" :> h \o p)))

C3_Witness ==
  /\ OnEventServed(1)
  /\ event[1] = CreateEvent(ExampleUrl)
  /\ outcome[1] = Return(("Data" :> ("HostName" :>
       <<"e", "x", "a", "m", "p", "l", "e", ".", "c", "o", "m", ":", "8", "0", "8", "0">>)))

\* C4 as stated: every is_complete call, whatever fields its event has,
\* returns IsComplete = true and never fails.
C4_AlwaysComplete ==
  \A r \in Envs :
    entry[r] = "is_complete" => outcome[r] = Return(("IsComplete" :> TRUE))

\* C4 amended: an is_complete call whose event carries both PhysicalResourceId
\* and RequestType returns IsComplete = true whatever their values; a call
\* whose event lacks either fails with a lookup failure.
C4_CompleteWhenFieldsPresent ==
  \A r \in Envs :
    entry[r] = "is_complete" =>
      IF Has(event[r], "PhysicalResourceId") /\ Has(event[r], "RequestType")
      THEN outcome[r] = Return(("IsComplete" :> TRUE))
      ELSE Raised(r, "KeyError")

C4_Witness ==
  /\ entry[1] = "is_complete"
  /\ Has(event[1], "PhysicalResourceId")
  /\ Has(event[1], "RequestType")
  /\ TypeOf(1) = "Delete"
  /\ outcome[1] = Return(("IsComplete" :> TRUE))

\* C5: a Create that succeeds returns a result with Data and without
\* PhysicalResourceId, even when the event carries a PhysicalResourceId; an
\* Update or Delete that succeeds returns one with PhysicalResourceId and
\* without Data.
C5_ResultShape ==
  \A r \in Envs :
    (OnEventServed(r) /\ Returned(r)) =>
      /\ Has(event[r], "RequestType")
      /\ TypeOf(r) = "Create" => DOMAIN outcome[r].value = {"Data"}
      /\ TypeOf(r) \in {"Update", "Delete"} =>
           DOMAIN outcome[r].value = {"PhysicalResourceId"}

C5_Witness ==
  /\ OnEventServed(1)
  /\ Returned(1)
  /\ TypeOf(1) = "Create"
  /\ Has(event[1], "PhysicalResourceId")
  /\ Has(outcome[1].value, "Data")

C7_FirstPollCompletes ==
  /\ [](/\ phase # "poll_failed"
        /\ phase = "polling" => polls = 0
        /\ phase = "complete" => polls = 1)
  /\ (phase = "polling") ~> (phase = "complete")

C7_Witness ==
  /\ phase = "complete"
  /\ polls = 1
  /\ pending["RequestType"] = "Create"
  /\ pending["PhysicalResourceId"] = AssignedId
  /\ entry[1] = "is_complete"
  /\ outcome[1] = Return(("IsComplete" :> TRUE))

\* C8: every on_event call prints the raw event first, and once: also when it
\* then fails on a missing or unrecognized RequestType, and before any line
\* of a handler.
C8_RawEventLoggedFirst ==
  \A r \in Envs :
    OnEventServed(r) =>
      /\ Len(log[r]) >= 1
      /\ log[r][1] = Line("%s", <<event[r]>>)
      /\ \A i \in 2..Len(log[r]) : log[r][i].fmt # "%s"

C8_Witness ==
  /\ OnEventServed(1)
  /\ ~Has(event[1], "RequestType")
  /\ Raised(1, "KeyError")
  /\ log[1] = <<Line("%s", <<event[1]>>)>>

MissingField(ev) ==
  \/ ~Has(ev, "RequestType")
  \/ /\ ev["RequestType"] = "Create"
     /\ \/ ~Has(ev, "ResourceProperties")
        \/ ~Has(ev["ResourceProperties"], "Url")
  \/ /\ ev["RequestType"] = "Update"
     /\ \/ ~Has(ev, "PhysicalResourceId")
        \/ ~Has(ev, "ResourceProperties")
  \/ /\ ev["RequestType"] = "Delete"
     /\ ~Has(ev, "PhysicalResourceId")

\* C9: an on_event call fails with a lookup failure, not the
\* unrecognized-request-type error, and yields no result when RequestType is
\* absent, when a Create lacks ResourceProperties or its Url, when an Update
\* lacks PhysicalResourceId or ResourceProperties, and when a Delete lacks
\* PhysicalResourceId; a Delete that lacks ResourceProperties succeeds.
C9_MissingFieldsFailLookup ==
  \A r \in Envs :
    OnEventServed(r) =>
      /\ MissingField(event[r]) => Raised(r, "KeyError")
      /\ ( /\ Has(event[r], "RequestType")
           /\ TypeOf(r) = "Delete"
           /\ Has(event[r], "PhysicalResourceId")
           /\ ~Has(event[r], "ResourceProperties") ) => Returned(r)

C9_Witness ==
  /\ OnEventServed(1)
  /\ event[1] = ("RequestType" :> "Delete") @@ ("PhysicalResourceId" :> "abc-123")
  /\ Returned(1)
  /\ prior[1] = "raise"

HandlerOf(t) ==
  IF t = "Create" THEN "on_create" ELSE IF t = "Update" THEN "on_update" ELSE "on_delete"

ResultOf(t, ev) ==
  IF t = "Create" THEN on_create(ev).out
  ELSE IF t = "Update" THEN on_update(ev).out
  ELSE on_delete(ev).out

\* C10: for an event with a recognized RequestType on_event enters exactly one
\* handler, the one of that RequestType, and its outcome is that handler's.
C10_ExactlyOneHandler ==
  \A r \in Envs :
    (OnEventServed(r) /\ Has(event[r], "RequestType") /\ TypeOf(r) \in Recognized)
      => /\ called[r] = <<HandlerOf(TypeOf(r))>>
         /\ outcome[r] = ResultOf(TypeOf(r), event[r])

C10_Witness ==
  /\ OnEventServed(1)
  /\ Has(event[1], "RequestType")
  /\ TypeOf(1) = "Update"
  /\ called[1] = <<"on_update">>
  /\ Returned(1)

====
